---- MODULE Spec2Model ----
(***************************************************************************)
(* Model of the DFA engine of package dfa (src/dfa/dfa.go, src/dfa/state.go).*)
(*                                                                         *)
(* The source tree holds two definitions of the DFA type: the one of       *)
(* dfa.go, and a second one in the lower half of state.go (lines 61-274).  *)
(* They differ in SetState / SetStates, GetState and buildKey.  The        *)
(* variable `build` records which of the two a program was built from; it  *)
(* is chosen in Init and never changes.                                    *)
(*                                                                         *)
(* State objects live in `heap` and are referred to by pointer; the DFA    *)
(* struct is the record `m`.  Go slices that are filled while ranging over *)
(* a map have no specified order, so they are kept as bags (element ->     *)
(* number of occurrences).                                                 *)
(***************************************************************************)
EXTENDS Integers, Sequences, FiniteSets, TLC

VARIABLES heap, m, build, status, ret

vars == <<heap, m, build, status, ret>>

\* ------------------------------------------------------------------ bounds
\* Largest number of transitions held by all State objects together.
MaxTransitions == 2
\* Longest token sequence handed to Run.
MaxTokens == 2
\* Longest slice handed to SetStates / AddTransitions.
MaxBulk == 2
\* Longest symbol handed to buildKey.
MaxSymbolLen == 2

\* ---------------------------------------------------------------- alphabet
\* Names given to State objects (one object per name), and a name no object has.
StateNames == {"A", "B"}
UnknownName == "Z"
\* Symbols are Go strings, kept as their bytes: "go" and "stop".
go == <<103, 111>>
stop == <<115, 116, 111, 112>>
Symbols == {go, stop}
\* Symbols for the key of the state-pair index: strings over 'a', '-' and '>',
\* so that a symbol can hold the delimiter.
KeyBytes == {97, 45, 62}
KeySymbols == UNION {[1..k -> KeyBytes] : k \in 0..MaxSymbolLen}

Builds == {"dfa.go", "state.go"}
NilPtr == "nil"

\* ----------------------------------------------------------------- helpers
EmptyMap == [k \in {} |-> k]
Put(f, k, v) == [x \in (DOMAIN f) \cup {k} |-> IF x = k THEN v ELSE f[x]]
SeqsUpTo(S, n) == UNION {[1..k -> S] : k \in 0..n}
RECURSIVE SumOver(_, _)
SumOver(S, f) ==
    IF S = {} THEN 0
    ELSE LET x == CHOOSE y \in S : TRUE IN f[x] + SumOver(S \ {x}, f)
TransitionCount(h) ==
    SumOver(DOMAIN h, [p \in DOMAIN h |-> Cardinality(DOMAIN h[p].Transitions)])

\* A Go map value: nil, or made and holding `at`.  Reading a nil map behaves
\* as reading an empty one.
NilMap == [nil |-> TRUE, at |-> EmptyMap]
MakeMap == [nil |-> FALSE, at |-> EmptyMap]

\* ------------------------------------------------------------------- State
\* NewState (state.go:13-19)
NewState(name) == [Name |-> name, Final |-> FALSE, Transitions |-> EmptyMap]

\* An AddTransition that leaves a symbol that already has a transition alone.
AddTransitionKeepsFirst(s, state, symbol) ==
    IF symbol \in DOMAIN s.Transitions THEN s
    ELSE [s EXCEPT !.Transitions = Put(s.Transitions, symbol, state.Name)]
\* State.AddTransition (state.go:34-39): s.Transitions[symbol] = state.Name
AddTransition(s, state, symbol) ==
    [s EXCEPT !.Transitions = Put(s.Transitions, symbol, state.Name)]

\* State.AddTransitions (state.go:27-31): the same assignment for each symbol
RECURSIVE AddTransitions(_, _, _)
AddTransitions(s, state, symbols) ==
    IF symbols = <<>> THEN s
    ELSE AddTransitions(
            [s EXCEPT !.Transitions = Put(s.Transitions, Head(symbols), state.Name)],
            state, Tail(symbols))

ViaAnyEdge(s, symbol) ==
    IF DOMAIN s.Transitions # {}
    THEN [state |-> s.Transitions[CHOOSE key \in DOMAIN s.Transitions : TRUE],
          ok |-> TRUE]
    ELSE [state |-> "", ok |-> FALSE]
\* State.Via (state.go:42-49)
Via(s, symbol) ==
    IF \E key \in DOMAIN s.Transitions : key = symbol
    THEN [state |-> s.Transitions[symbol], ok |-> TRUE]
    ELSE [state |-> "", ok |-> FALSE]

\* State.SetFinal (state.go:57-59)
SetFinal(s, final) == [s EXCEPT !.Final = final]

\* --------------------------------------------------------------------- DFA
\* NewDFA (dfa.go:34-38, state.go:98-103): every field but Name is zero.
NewDFA ==
    [States |-> NilMap, StateLookup |-> EmptyMap, EdgeLookup |-> EmptyMap,
     Indexed |-> FALSE, Start |-> ""]

\* m.States[name]: the pointer stored under name, nil when there is none.
StatesAt(mm, name) ==
    IF name \in DOMAIN mm.States.at THEN mm.States.at[name] ELSE NilPtr

\* DFA.SetStart
SetStart(mm, state) == [mm EXCEPT !.Start = state]

\* DFA.SetState of dfa.go:48-53
SetState_dfa(mm, h, p) ==
    LET made == IF mm.States.nil THEN MakeMap ELSE mm.States
    IN  [mm EXCEPT !.States = [made EXCEPT !.at = Put(made.at, h[p].Name, p)]]

\* DFA.SetState of state.go:116-122: as above, then m.Indexed = false
SetState_state(mm, h, p) ==
    LET made == IF mm.States.nil THEN MakeMap ELSE mm.States
    IN  [mm EXCEPT !.States = [made EXCEPT !.at = Put(made.at, h[p].Name, p)],
                   !.Indexed = FALSE]

SetState(mm, h, p) ==
    IF build = "dfa.go" THEN SetState_dfa(mm, h, p) ELSE SetState_state(mm, h, p)

\* DFA.SetStates of dfa.go:55-62: the map is made even for an empty slice
RECURSIVE AssignStates(_, _, _)
AssignStates(mm, h, states) ==
    IF states = <<>> THEN mm
    ELSE AssignStates(
            [mm EXCEPT !.States.at = Put(mm.States.at, h[Head(states)].Name, Head(states))],
            h, Tail(states))
SetStates_dfa(mm, h, states) ==
    AssignStates([mm EXCEPT !.States = IF mm.States.nil THEN MakeMap ELSE mm.States],
                 h, states)

\* DFA.SetStates of state.go:125-129: SetState for each element
RECURSIVE SetStates_state(_, _, _)
SetStates_state(mm, h, states) ==
    IF states = <<>> THEN mm
    ELSE SetStates_state(SetState_state(mm, h, Head(states)), h, Tail(states))

SetStates(mm, h, states) ==
    IF build = "dfa.go" THEN SetStates_dfa(mm, h, states)
    ELSE SetStates_state(mm, h, states)

\* DFA.StateExists (dfa.go:71-74, state.go:140-145)
StateExists(mm, name) == StatesAt(mm, name) # NilPtr

\* DFA.GetState of dfa.go:64-69: (state, ok)
GetState_dfa(mm, name) ==
    IF StatesAt(mm, name) = NilPtr THEN [state |-> NilPtr, ok |-> FALSE]
    ELSE [state |-> StatesAt(mm, name), ok |-> TRUE]

\* DFA.GetState of state.go:132-137: the state, or nil
GetState_state(mm, name) ==
    IF StateExists(mm, name) THEN [state |-> StatesAt(mm, name)]
    ELSE [state |-> NilPtr]

StepAlwaysLooksUp(mm, h, state, symbol) ==
    IF state \in DOMAIN h /\ Via(h[state], symbol).ok
    THEN [next |-> Via(h[state], symbol).state, found |-> TRUE, err |-> ""]
    ELSE [next |-> "", found |-> FALSE, err |-> ""]
\* DFA.Step (dfa.go:78-86, state.go:149-157)
Step(mm, h, state, symbol) ==
    IF StatesAt(mm, state) = NilPtr
    THEN [next |-> "", found |-> FALSE, err |-> "state not existent"]
    ELSE LET v == Via(h[StatesAt(mm, state)], symbol)
         IN  IF v.ok THEN [next |-> v.state, found |-> TRUE, err |-> ""]
             ELSE [next |-> "", found |-> FALSE, err |-> ""]

\* ---------------------------------------------------------------- indexing
directionDelimiter == <<45, 62>>
HexDigits == <<"0", "1", "2", "3", "4", "5", "6", "7", "8", "9",
               "a", "b", "c", "d", "e", "f">>
\* hex.EncodeToString: two digits per byte
RECURSIVE HexEncode(_)
HexEncode(data) ==
    IF data = <<>> THEN <<>>
    ELSE <<HexDigits[(Head(data) \div 16) + 1], HexDigits[(Head(data) % 16) + 1]>>
         \o HexEncode(Tail(data))
\* strings.Join([]string{from, to}, directionDelimiter)
Join(from, to) == from \o directionDelimiter \o to
\* md5.Sum: the digest is not computed; it is kept as a value that is equal
\* for equal inputs and, on this alphabet, different for different inputs.
MD5Sum(data) == [md5 |-> data]

\* DFA.buildKey of dfa.go:88-91
buildKey_dfa(from, to) == HexEncode(Join(from, to))
\* DFA.buildKey of state.go:159-163
buildKey_state(from, to) == [hex |-> MD5Sum(Join(from, to))]
buildKey(from, to) ==
    IF build = "dfa.go" THEN buildKey_dfa(from, to) ELSE buildKey_state(from, to)

\* The bag of the values f[t], t in S.
BagOf(S, f) == [x \in {f[t] : t \in S} |-> Cardinality({t \in S : f[t] = x})]
EmptyBag == EmptyMap
BagToSet(b) == DOMAIN b

\* The transitions the loops of Index range over: <<state, symbol1>> for
\* every registered state and every symbol it has a transition on.
IndexedEdges(mm, h) ==
    UNION {{<<mm.States.at[n], s1>> : s1 \in DOMAIN h[mm.States.at[n]].Transitions} :
           n \in DOMAIN mm.States.at}
Target(h, e) == h[e[1]].Transitions[e[2]]
\* m.States[transition] is nil: the read of its Transitions panics
Dangling(mm, h, e) == StatesAt(mm, Target(h, e)) = NilPtr

\* The StateLookup that processing the transitions `done` leaves (dfa.go:102-108)
StateLookupOver(mm, h, done) ==
    LET trip == UNION {{<<e[1], e[2], s2>> :
                          s2 \in DOMAIN h[StatesAt(mm, Target(h, e))].Transitions} :
                       e \in done}
        key == [t \in trip |-> buildKey(t[2], t[3])]
    IN  [k \in {key[t] : t \in trip} |->
            BagOf({t \in trip : key[t] = k},
                  [t \in trip |-> Target(h, <<t[1], t[2]>>)])]

EdgeLookupReversed(mm, h, done) ==
    [s \in {e[2] : e \in done} |->
        BagOf({e \in done : e[2] = s},
              [e \in done |-> [From |-> Target(h, e), To |-> h[e[1]].Name]])]
\* The EdgeLookup that processing the transitions `done` leaves (dfa.go:110-116)
EdgeLookupOver(mm, h, done) ==
    [s \in {e[2] : e \in done} |->
        BagOf({e \in done : e[2] = s},
              [e \in done |-> [From |-> h[e[1]].Name, To |-> Target(h, e)]])]

\* What the loops may have processed when the panic comes: all transitions of
\* some states without a dangling transition, and some of the sound
\* transitions of one state that has one (map iteration order is not fixed).
PartialBuilds(mm, h) ==
    LET all == IndexedEdges(mm, h)
        bad == {e \in all : Dangling(mm, h, e)}
        dirty == {e[1] : e \in bad}
        clean == {e[1] : e \in all} \ dirty
    IN  UNION {{{e \in all : e[1] \in D} \cup T :
                  D \in SUBSET clean,
                  T \in SUBSET {e \in all \ bad : e[1] = p}} :
               p \in dirty}

MergeBags(a, b) ==
    [x \in (DOMAIN a) \cup (DOMAIN b) |->
        (IF x \in DOMAIN a THEN a[x] ELSE 0) + (IF x \in DOMAIN b THEN b[x] ELSE 0)]
MergeLookups(old, new) ==
    [k \in (DOMAIN old) \cup (DOMAIN new) |->
        MergeBags(IF k \in DOMAIN old THEN old[k] ELSE EmptyMap,
                  IF k \in DOMAIN new THEN new[k] ELSE EmptyMap)]
\* An Index that keeps the maps of the build before and appends to them.
IndexAccumulating(mm, h) ==
    LET all == {e \in IndexedEdges(mm, h) : ~Dangling(mm, h, e)}
    IN  {[panic |-> FALSE,
          m |-> [mm EXCEPT
                   !.StateLookup = MergeLookups(mm.StateLookup, StateLookupOver(mm, h, all)),
                   !.EdgeLookup = MergeLookups(mm.EdgeLookup, EdgeLookupOver(mm, h, all)),
                   !.Indexed = TRUE]]}
\* An Index that passes over dangling transitions instead of reading through
\* the nil state.
IndexSkipsDangling(mm, h) ==
    LET all == {e \in IndexedEdges(mm, h) : ~Dangling(mm, h, e)}
    IN  {[panic |-> FALSE,
          m |-> [mm EXCEPT !.StateLookup = StateLookupOver(mm, h, all),
                           !.EdgeLookup = EdgeLookupOver(mm, h, all),
                           !.Indexed = TRUE]]}
\* DFA.Index (dfa.go:96-120, state.go:168-192): the set of ways it can end.
Index(mm, h) ==
    LET all == IndexedEdges(mm, h)
    IN  IF \A e \in all : ~Dangling(mm, h, e)
        THEN {[panic |-> FALSE,
               m |-> [mm EXCEPT !.StateLookup = StateLookupOver(mm, h, all),
                                !.EdgeLookup = EdgeLookupOver(mm, h, all),
                                !.Indexed = TRUE]]}
        ELSE {[panic |-> TRUE,
               m |-> [mm EXCEPT !.StateLookup = StateLookupOver(mm, h, done),
                                !.EdgeLookup = EdgeLookupOver(mm, h, done)]] :
              done \in PartialBuilds(mm, h)}

\* An inspection that rebuilds the index on every call.
AlwaysReindex(mm, h) == Index(mm, h)
\* DFA.ensureIndexed (state.go:229-234), written out in dfa.go:126-129, 140-143
ensureIndexed(mm, h) ==
    IF ~mm.Indexed
    THEN {[panic |-> o.panic,
           m |-> IF o.panic THEN o.m ELSE [o.m EXCEPT !.Indexed = TRUE]] :
          o \in Index(mm, h)}
    ELSE {[panic |-> FALSE, m |-> mm]}

\* The lookup of DFA.InspectStates (dfa.go:130-133, state.go:199-202)
InspectStatesIn(mm, from, to) ==
    IF buildKey(from, to) \in DOMAIN mm.StateLookup
    THEN mm.StateLookup[buildKey(from, to)]
    ELSE EmptyBag

\* The lookup of DFA.InspectSymbols (dfa.go:144-147, state.go:210-213)
InspectSymbolsIn(mm, symbol) ==
    IF symbol \in DOMAIN mm.EdgeLookup
    THEN [nil |-> FALSE, edges |-> mm.EdgeLookup[symbol]]
    ELSE [nil |-> TRUE, edges |-> EmptyBag]

\* --------------------------------------------------------------------- Run
\* What a call of Run ends in: outcome "return" with the values returned, or
\* outcome "fatal" when log.Fatal ended the process (path: what had been
\* appended).  lookups lists the Via calls made, as <<state, token>>; iters
\* counts the loop iterations entered.
RunEnd(outcome, msg, path, ok, lookups, iters) ==
    [outcome |-> outcome, msg |-> msg, path |-> path, ok |-> ok,
     lookups |-> lookups, iters |-> iters]

NeverFinal(mm, h, current) == FALSE
\* m.States[current].Final (dfa.go:167, state.go:253)
IsFinalAt(mm, h, current) == h[StatesAt(mm, current)].Final

ExhaustedAsksFinal(mm, h, current, path, lookups, iters) ==
    RunEnd("return", "", path,
           StatesAt(mm, current) # NilPtr /\ h[StatesAt(mm, current)].Final,
           lookups, iters)
\* The return after the loop (dfa.go:176, state.go:262): return path, true
Exhausted(mm, h, current, path, lookups, iters) ==
    RunEnd("return", "", path, TRUE, lookups, iters)

\* A loop that appends the state a transition leads to, not the one it leaves.
RECURSIVE RunLoopPostTransition(_, _, _, _, _, _, _)
RunLoopPostTransition(mm, h, tokens, i, current, path, lookups) ==
    IF i > Len(tokens)
    THEN Exhausted(mm, h, current, path, lookups, i - 1)
    ELSE IF StatesAt(mm, current) = NilPtr
    THEN RunEnd("fatal", "state not existent", path, FALSE, lookups, i)
    ELSE IF IsFinalAt(mm, h, current)
    THEN RunEnd("return", "", path, TRUE, lookups, i)
    ELSE LET v == Via(h[StatesAt(mm, current)], tokens[i])
             lookups1 == Append(lookups, <<current, tokens[i]>>)
         IN  IF ~v.ok
             THEN RunEnd("return", "", path, FALSE, lookups1, i)
             ELSE RunLoopPostTransition(mm, h, tokens, i + 1, v.state,
                                        Append(path, v.state), lookups1)

\* A loop that enters one more iteration, on the last token again, after the
\* tokens are used up.
RECURSIVE RunLoopOneMore(_, _, _, _, _, _, _)
RunLoopOneMore(mm, h, tokens, i, current, path, lookups) ==
    IF i > Len(tokens) + 1 \/ tokens = <<>>
    THEN Exhausted(mm, h, current, path, lookups, i - 1)
    ELSE LET token == tokens[IF i > Len(tokens) THEN Len(tokens) ELSE i]
             path1 == Append(path, current)
         IN  IF StatesAt(mm, current) = NilPtr
             THEN RunEnd("fatal", "state not existent", path1, FALSE, lookups, i)
             ELSE IF IsFinalAt(mm, h, current)
             THEN RunEnd("return", "", path1, TRUE, lookups, i)
             ELSE LET v == Via(h[StatesAt(mm, current)], token)
                      lookups1 == Append(lookups, <<current, token>>)
                  IN  IF ~v.ok
                      THEN RunEnd("return", "", path1, FALSE, lookups1, i)
                      ELSE RunLoopOneMore(mm, h, tokens, i + 1, v.state, path1, lookups1)

\* The loop of Run (dfa.go:161-176, state.go:247-262), from token i on.
RECURSIVE RunLoop(_, _, _, _, _, _, _)
RunLoop(mm, h, tokens, i, current, path, lookups) ==
    IF i > Len(tokens)
    THEN Exhausted(mm, h, current, path, lookups, i - 1)
    ELSE LET token == tokens[i]
             path1 == Append(path, current)
         IN  IF StatesAt(mm, current) = NilPtr
             THEN RunEnd("fatal", "state not existent", path1, FALSE, lookups, i)
             ELSE IF IsFinalAt(mm, h, current)
             THEN RunEnd("return", "", path1, TRUE, lookups, i)
             ELSE LET v == Via(h[StatesAt(mm, current)], token)
                      lookups1 == Append(lookups, <<current, token>>)
                  IN  IF ~v.ok
                      THEN RunEnd("return", "", path1, FALSE, lookups1, i)
                      ELSE RunLoop(mm, h, tokens, i + 1, v.state, path1, lookups1)

\* A Run whose path starts out holding the start state.
RunSeedsPath(mm, h, tokens) ==
    IF mm.States.nil
    THEN RunEnd("fatal", "not able to run() DFA, no states", <<>>, FALSE, <<>>, 0)
    ELSE IF mm.Start \notin DOMAIN mm.States.at
    THEN RunEnd("fatal", "not able to run() DFA, no start state", <<>>, FALSE, <<>>, 0)
    ELSE IF tokens = <<>>
    THEN RunEnd("return", "", <<mm.Start>>, TRUE, <<>>, 0)
    ELSE RunLoop(mm, h, tokens, 1, mm.Start, <<>>, <<>>)
RunUnchecked(mm, h, tokens) == RunLoop(mm, h, tokens, 1, mm.Start, <<>>, <<>>)
\* DFA.Run (dfa.go:152-177, state.go:238-263)
Run(mm, h, tokens) ==
    IF mm.States.nil
    THEN RunEnd("fatal", "not able to run() DFA, no states", <<>>, FALSE, <<>>, 0)
    ELSE IF mm.Start \notin DOMAIN mm.States.at
    THEN RunEnd("fatal", "not able to run() DFA, no start state", <<>>, FALSE, <<>>, 0)
    ELSE RunLoop(mm, h, tokens, 1, mm.Start, <<>>, <<>>)

\* ----------------------------------------------------------------- actions
\* ret holds the last call: op, its arguments and what it returned.  For
\* SetState / SetStates, indexed is m.Indexed as the call found it; for the
\* AddTransition, old is the destination the symbol had before ("" for none);
\* for Index, had tells that an earlier build had left edges and changed that the
\* maps differ from those it found; for the
\* inspection calls, built tells that the index was built by the call itself
\* or by a call of Index right before it.
Init ==
    /\ heap = EmptyMap
    /\ m = NewDFA
    /\ build \in Builds
    /\ status = "running"
    /\ ret = [op |-> "NewDFA"]

DoNewState ==
    \E name \in StateNames :
        /\ status = "running"
        /\ name \notin DOMAIN heap
        /\ heap' = Put(heap, name, NewState(name))
        /\ ret' = [op |-> "NewState"]
        /\ UNCHANGED <<m, build, status>>

DoAddTransition ==
    \E s \in DOMAIN heap, state \in DOMAIN heap, symbol \in Symbols :
        /\ status = "running"
        /\ heap' = [heap EXCEPT ![s] = AddTransition(heap[s], heap[state], symbol)]
        /\ TransitionCount(heap') <= MaxTransitions
        /\ ret' = [op |-> "AddTransition", s |-> s, state |-> state, symbol |-> symbol,
                   old |-> Via(heap[s], symbol).state]
        /\ UNCHANGED <<m, build, status>>

DoAddTransitions ==
    \E s \in DOMAIN heap, state \in DOMAIN heap, symbols \in SeqsUpTo(Symbols, MaxBulk) :
        /\ status = "running"
        /\ heap' = [heap EXCEPT ![s] = AddTransitions(heap[s], heap[state], symbols)]
        /\ TransitionCount(heap') <= MaxTransitions
        /\ ret' = [op |-> "AddTransitions"]
        /\ UNCHANGED <<m, build, status>>

DoSetFinal ==
    \E s \in DOMAIN heap, final \in BOOLEAN :
        /\ status = "running"
        /\ heap' = [heap EXCEPT ![s] = SetFinal(heap[s], final)]
        /\ ret' = [op |-> "SetFinal"]
        /\ UNCHANGED <<m, build, status>>

DoSetStart ==
    \E state \in StateNames :
        /\ status = "running"
        /\ m' = SetStart(m, state)
        /\ ret' = [op |-> "SetStart"]
        /\ UNCHANGED <<heap, build, status>>

DoSetState ==
    \E p \in DOMAIN heap :
        /\ status = "running"
        /\ m' = SetState(m, heap, p)
        /\ ret' = [op |-> "SetState", indexed |-> m.Indexed]
        /\ UNCHANGED <<heap, build, status>>

DoSetStates ==
    \E states \in SeqsUpTo(DOMAIN heap, MaxBulk) :
        /\ status = "running"
        /\ m' = SetStates(m, heap, states)
        /\ ret' = [op |-> "SetStates", indexed |-> m.Indexed, some |-> states # <<>>]
        /\ UNCHANGED <<heap, build, status>>

DoGetState ==
    \E name \in StateNames \cup {UnknownName} :
        /\ status = "running"
        /\ ret' = [op |-> "GetState", name |-> name,
                   val |-> IF build = "dfa.go" THEN GetState_dfa(m, name)
                           ELSE GetState_state(m, name)]
        /\ UNCHANGED <<heap, m, build, status>>

DoStateExists ==
    \E name \in StateNames \cup {UnknownName} :
        /\ status = "running"
        /\ ret' = [op |-> "StateExists", name |-> name, val |-> StateExists(m, name)]
        /\ UNCHANGED <<heap, m, build, status>>

DoStep ==
    \E state \in StateNames \cup {UnknownName}, symbol \in Symbols :
        /\ status = "running"
        /\ ret' = [op |-> "Step", state |-> state, symbol |-> symbol,
                   val |-> Step(m, heap, state, symbol)]
        /\ UNCHANGED <<heap, m, build, status>>

\* A call of Run: it returns, or log.Fatal ends the process (os.Exit).
DoRun ==
    \E tokens \in SeqsUpTo(Symbols, MaxTokens) :
        /\ status = "running"
        /\ ret' = [op |-> "Run", tokens |-> tokens, val |-> Run(m, heap, tokens)]
        /\ status' = IF ret'.val.outcome = "fatal" THEN "exited" ELSE "running"
        /\ UNCHANGED <<heap, m, build>>

Build ==
    \/ DoNewState
    \/ DoAddTransition
    \/ DoAddTransitions
    \/ DoSetFinal
    \/ DoSetStart
    \/ DoSetState
    \/ DoSetStates

NextRun ==
    \/ Build
    \/ DoGetState
    \/ DoStateExists
    \/ DoStep
    \/ DoRun

\* Construction and execution: every operation but indexing and inspection.
SpecRun == Init /\ [][NextRun]_vars

DoIndex ==
    \E o \in Index(m, heap) :
        /\ status = "running"
        /\ m' = o.m
        /\ status' = IF o.panic THEN "panicked" ELSE "running"
        /\ ret' = [op |-> "Index", indexed |-> m.Indexed,
                   had |-> (m.EdgeLookup # EmptyMap),
                   changed |-> (o.m.EdgeLookup # m.EdgeLookup
                                \/ o.m.StateLookup # m.StateLookup)]
        /\ UNCHANGED <<heap, build>>

DoInspectStates ==
    \E from \in Symbols, to \in Symbols :
        \E o \in ensureIndexed(m, heap) :
            /\ status = "running"
            /\ m' = o.m
            /\ status' = IF o.panic THEN "panicked" ELSE "running"
            /\ ret' = IF o.panic THEN [op |-> "InspectStates"]
                      ELSE [op |-> "InspectStates", from |-> from, to |-> to,
                            built |-> (~m.Indexed \/ ret.op = "Index"),
                            val |-> InspectStatesIn(o.m, from, to)]
            /\ UNCHANGED <<heap, build>>

DoInspectSymbols ==
    \E symbol \in Symbols :
        \E o \in ensureIndexed(m, heap) :
            /\ status = "running"
            /\ m' = o.m
            /\ status' = IF o.panic THEN "panicked" ELSE "running"
            /\ ret' = IF o.panic THEN [op |-> "InspectSymbols"]
                      ELSE [op |-> "InspectSymbols", symbol |-> symbol,
                            built |-> (~m.Indexed \/ ret.op = "Index"),
                            val |-> InspectSymbolsIn(o.m, symbol)]
            /\ UNCHANGED <<heap, build>>

\* A call of buildKey(from, to), as Index and InspectStates make it.
DoBuildKey ==
    \E from \in KeySymbols, to \in KeySymbols :
        /\ status = "running"
        /\ ret' = [op |-> "buildKey", from |-> from, to |-> to,
                   val |-> buildKey(from, to)]
        /\ UNCHANGED <<heap, m, build, status>>

\* The keys alone.
SpecKey == Init /\ [][DoBuildKey]_vars

Construct ==
    \/ DoNewState
    \/ DoAddTransition
    \/ DoAddTransitions
    \/ DoSetState
    \/ DoSetStates

NextIndex ==
    \/ Construct
    \/ DoIndex
    \/ DoInspectStates
    \/ DoInspectSymbols

\* Construction, indexing and inspection.  Index never reads Final or Start,
\* so SetFinal and SetStart are left to SpecRun.
SpecIndex == Init /\ [][NextIndex]_vars

\* Construction one call at a time, indexing and every query.  SetStates and
\* AddTransitions reach no automaton that SetState and AddTransition do not.
NextQuery ==
    \/ DoNewState
    \/ DoAddTransition
    \/ DoSetFinal
    \/ DoSetStart
    \/ DoSetState
    \/ DoIndex
    \/ DoInspectStates
    \/ DoInspectSymbols
    \/ DoGetState
    \/ DoStateExists
    \/ DoStep
    \/ DoRun

SpecQuery == Init /\ [][NextQuery]_vars

Next == NextRun \/ NextIndex

Spec == Init /\ [][Next]_vars

\* ================================================================== claims
\* The automaton as a graph, read off heap and m without the code's operators.
Registered(n) == n \in DOMAIN m.States.at
Node(n) == heap[m.States.at[n]]
Accepting(n) == Node(n).Final
HasEdge(n, s) == s \in DOMAIN Node(n).Transitions
Dest(n, s) == Node(n).Transitions[s]
CanStart == ~m.States.nil /\ Registered(m.Start)

\* The state that is current at the top of iteration k of a traversal of
\* tokens, when the iterations before it each took a transition.
RECURSIVE Walk(_, _)
Walk(tokens, k) ==
    IF k = 1 THEN m.Start ELSE Dest(Walk(tokens, k - 1), tokens[k - 1])
\* Iteration k is reached: every iteration before it found a registered,
\* non-accepting state with a transition on its token.
RECURSIVE Reaches(_, _)
Reaches(tokens, k) ==
    \/ k = 1
    \/ /\ Reaches(tokens, k - 1)
       /\ Registered(Walk(tokens, k - 1))
       /\ ~Accepting(Walk(tokens, k - 1))
       /\ HasEdge(Walk(tokens, k - 1), tokens[k - 1])
WalkTo(tokens, k) == [j \in 1..k |-> Walk(tokens, j)]
LookupsTo(tokens, k) == [j \in 1..k |-> <<Walk(tokens, j), tokens[j]>>]
RunReturned == ret.op = "Run" /\ ret.val.outcome = "return"

\* C1: when Run can start and the state that is current at the top of
\* iteration k is accepting, Run returns success there: the path is the k
\* states visited, ending in the accepting one, and the only lookups made are
\* those of the k-1 iterations before it: tokens k and later are never looked up.
C1_StopsAtAccepting ==
    (ret.op = "Run" /\ CanStart) =>
        \A k \in 1..Len(ret.tokens) :
            (/\ Reaches(ret.tokens, k)
             /\ Registered(Walk(ret.tokens, k))
             /\ Accepting(Walk(ret.tokens, k)))
            => /\ ret.val.outcome = "return"
               /\ ret.val.ok
               /\ ret.val.path = WalkTo(ret.tokens, k)
               /\ ret.val.lookups = LookupsTo(ret.tokens, k - 1)
               /\ ret.val.iters = k

\* A run that took one transition into an accepting state and stopped there.
C1_Witness ==
    /\ RunReturned /\ CanStart
    /\ Len(ret.tokens) = 2
    /\ Len(ret.val.path) = 2
    /\ Accepting(ret.val.path[2])
    /\ ret.val.ok
    /\ Len(ret.val.lookups) = 1

\* C2: when Run can start and the state current at iteration k is registered,
\* not accepting and has no transition on token k, Run returns false with the
\* path of the k states visited, whose last entry is that state.
C2_RejectsOnMissingTransition ==
    (ret.op = "Run" /\ CanStart) =>
        \A k \in 1..Len(ret.tokens) :
            (/\ Reaches(ret.tokens, k)
             /\ Registered(Walk(ret.tokens, k))
             /\ ~Accepting(Walk(ret.tokens, k))
             /\ ~HasEdge(Walk(ret.tokens, k), ret.tokens[k]))
            => /\ ret.val.outcome = "return"
               /\ ~ret.val.ok
               /\ ret.val.path = WalkTo(ret.tokens, k)
               /\ ret.val.path[k] = Walk(ret.tokens, k)
               /\ ret.val.iters = k

\* The example: A --go--> B, Run(["stop"]) from A returns [A], rejected.
C2_Witness ==
    /\ RunReturned
    /\ m.Start = "A" /\ Registered("A") /\ Registered("B")
    /\ HasEdge("A", go) /\ Dest("A", go) = "B"
    /\ ret.tokens = <<stop>>
    /\ ret.val.path = <<"A">>
    /\ ~ret.val.ok

\* The automaton of the example: A --go--> B, B --go--> C, C accepting,
\* all three registered, start A.
ExampleHeap ==
    LET a0 == NewState("A")
        b0 == NewState("B")
        c0 == NewState("C")
    IN  [n \in {"A", "B", "C"} |->
            CASE n = "A" -> AddTransition(a0, b0, go)
              [] n = "B" -> AddTransition(b0, c0, go)
              [] n = "C" -> SetFinal(c0, TRUE)]
ExampleDFA == SetStart(SetStates(NewDFA, ExampleHeap, <<"A", "B", "C">>), "A")

\* C3: the path Run returns holds the states as they were before each
\* transition: it starts with the start state, entry i+1 is the destination
\* of entry i's transition on token i, it is never longer than the token
\* sequence (so the state reached on the last token is not appended); and on
\* the example automaton Run(["go","go"]) returns [A, B] and success.
C3_PathIsPreTransition ==
    /\ RunReturned =>
        /\ ret.val.path # <<>> => ret.val.path[1] = m.Start
        /\ \A i \in 1..(Len(ret.val.path) - 1) :
              /\ Registered(ret.val.path[i])
              /\ HasEdge(ret.val.path[i], ret.tokens[i])
              /\ ret.val.path[i + 1] = Dest(ret.val.path[i], ret.tokens[i])
        /\ Len(ret.val.path) <= Len(ret.tokens)
    /\ LET r == Run(ExampleDFA, ExampleHeap, <<go, go>>)
       IN  r.outcome = "return" /\ r.path = <<"A", "B">> /\ r.ok

\* Both tokens were consumed by a transition; the path stops at the state the
\* second transition left.
C3_Witness ==
    /\ RunReturned
    /\ Len(ret.tokens) = 2
    /\ Len(ret.val.lookups) = 2
    /\ ret.val.path = <<"A", "B">>
    /\ HasEdge("B", ret.tokens[2])

\* C4: when Run can start and every iteration finds a registered,
\* non-accepting state with a transition on its token, Run returns true with
\* the path of all states left, whatever the state reached last is.
C4_SuccessOnExhaustion ==
    (ret.op = "Run" /\ CanStart /\ Reaches(ret.tokens, Len(ret.tokens) + 1)) =>
        /\ ret.val.outcome = "return"
        /\ ret.val.ok
        /\ ret.val.path = WalkTo(ret.tokens, Len(ret.tokens))
        /\ ret.val.iters = Len(ret.tokens)

\* Success by exhaustion where the state reached last is registered and not
\* accepting.
C4_Witness ==
    /\ RunReturned /\ CanStart
    /\ ret.tokens # <<>>
    /\ Reaches(ret.tokens, Len(ret.tokens) + 1)
    /\ Registered(Walk(ret.tokens, Len(ret.tokens) + 1))
    /\ ~Accepting(Walk(ret.tokens, Len(ret.tokens) + 1))
    /\ ret.val.ok

\* C5: Run on an automaton without registered states, or whose Start names
\* no registered state, ends in log.Fatal before any token is examined: no
\* loop iteration, no path entry and no lookup, for every token sequence.
C5_FatalBeforeTraversal ==
    (ret.op = "Run" /\ ~CanStart) =>
        /\ ret.val.outcome = "fatal"
        /\ ret.val.msg \in {"not able to run() DFA, no states",
                            "not able to run() DFA, no start state"}
        /\ ret.val.path = <<>>
        /\ ret.val.lookups = <<>>
        /\ ret.val.iters = 0

\* States are registered but Start names none of them, and tokens were given.
C5_Witness ==
    /\ ret.op = "Run"
    /\ ~m.States.nil /\ DOMAIN m.States.at # {}
    /\ ~Registered(m.Start)
    /\ ret.tokens # <<>>
    /\ ret.val.outcome = "fatal"

\* C6: a configuration fault of Run (no states, or a start state that is not
\* registered) is returned to the caller as a failure; Run never ends the
\* host process.
C6_FaultIsReturned ==
    /\ status # "exited"
    /\ (ret.op = "Run" /\ ~CanStart) => (ret.val.outcome = "return" /\ ~ret.val.ok)

\* C7: Step returns the error "state not existent", with "" and false,
\* exactly when the state name is not registered; for a registered state it
\* returns no error, and (destination, true) when the state has a transition
\* on the symbol, ("", false) when it has none.
C7_StepResult ==
    ret.op = "Step" =>
        /\ (ret.val.err = "state not existent") <=> ~Registered(ret.state)
        /\ ~Registered(ret.state) => (ret.val.next = "" /\ ~ret.val.found)
        /\ Registered(ret.state) =>
              /\ ret.val.err = ""
              /\ HasEdge(ret.state, ret.symbol) =>
                    (ret.val.next = Dest(ret.state, ret.symbol) /\ ret.val.found)
              /\ ~HasEdge(ret.state, ret.symbol) =>
                    (ret.val.next = "" /\ ~ret.val.found)

\* The example: Step("A", "go") = ("B", true), on an automaton that also holds
\* an object that is not registered.
C7_Witness ==
    /\ ret.op = "Step"
    /\ ret.state = "A" /\ ret.symbol = go
    /\ ret.val = [next |-> "B", found |-> TRUE, err |-> ""]
    /\ ~Registered("B")

\* Every transition of a registered state leads to a registered state.
NoDangling ==
    \A n \in DOMAIN m.States.at :
        \A s \in DOMAIN Node(n).Transitions : Registered(Dest(n, s))
EdgesLabelled(s) ==
    {[From |-> n, To |-> Dest(n, s)] : n \in {x \in DOMAIN m.States.at : HasEdge(x, s)}}
StatesBetween(s1, s2) ==
    {q \in DOMAIN m.States.at :
        /\ HasEdge(q, s2)
        /\ \E p \in DOMAIN m.States.at : HasEdge(p, s1) /\ Dest(p, s1) = q}

\* C8: InspectSymbols(s) on an index just built (by Index, or by the call
\* itself) over a graph without dangling transitions returns exactly the edges
\* (from, to) with an s-transition from `from` to `to`, each once, and nil
\* when no transition is labelled s.
C8_InspectSymbolsExact ==
    (/\ ret.op = "InspectSymbols"
     /\ status = "running"
     /\ ret.built
     /\ NoDangling)
    => /\ BagToSet(ret.val.edges) = EdgesLabelled(ret.symbol)
       /\ \A e \in BagToSet(ret.val.edges) : ret.val.edges[e] = 1
       /\ ret.val.nil <=> (EdgesLabelled(ret.symbol) = {})

\* Two edges carry the symbol asked for, and the index was built by Index.
C8_Witness ==
    /\ ret.op = "InspectSymbols"
    /\ status = "running"
    /\ ret.built /\ NoDangling
    /\ Cardinality(EdgesLabelled(ret.symbol)) = 2
    /\ \E e \in EdgesLabelled(ret.symbol) : e.From # e.To

\* C9: on a graph without dangling transitions InspectStates(s1, s2) holds q
\* if and only if some registered state has an s1-transition into q and q has
\* an s2-transition out; a pair with no such state yields the empty result.
C9_InspectStatesExact ==
    (/\ ret.op = "InspectStates"
     /\ status = "running"
     /\ NoDangling)
    => BagToSet(ret.val) = StatesBetween(ret.from, ret.to)

\* The same on an index just built (by Index, or by the call itself).
C9_OnFreshIndex ==
    (/\ ret.op = "InspectStates"
     /\ status = "running"
     /\ ret.built
     /\ NoDangling)
    => BagToSet(ret.val) = StatesBetween(ret.from, ret.to)

\* C10: SetState, and SetStates of at least one state, called on an
\* automaton whose Indexed is true, leave Indexed false.
C10_SetStateMarksStale ==
    (/\ ret.op = "SetState" \/ (ret.op = "SetStates" /\ ret.some)
     /\ ret.indexed)
    => ~m.Indexed

\* What the graph implies for the two indexes: under every symbol the edges
\* carrying it, each once; under the key of every symbol pair the states
\* between, each once per transition on the first symbol that leads into it.
EntriesInto(q, s1) ==
    Cardinality({p \in DOMAIN m.States.at : HasEdge(p, s1) /\ Dest(p, s1) = q})
IndexMatchesGraph ==
    /\ DOMAIN m.EdgeLookup = {s \in Symbols : EdgesLabelled(s) # {}}
    /\ \A s \in DOMAIN m.EdgeLookup :
          m.EdgeLookup[s] = [e \in EdgesLabelled(s) |-> 1]
    /\ DOMAIN m.StateLookup =
          {buildKey(p[1], p[2]) :
              p \in {x \in Symbols \X Symbols : StatesBetween(x[1], x[2]) # {}}}
    /\ \A s1 \in Symbols, s2 \in Symbols :
          InspectStatesIn(m, s1, s2) =
              [q \in StatesBetween(s1, s2) |-> EntriesInto(q, s1)]

\* C11: whenever Indexed is true (and no transition dangles) the two indexes
\* are those a full rebuild over the current graph would produce.
C11_IndexedMeansFresh ==
    (m.Indexed /\ status = "running" /\ NoDangling) => IndexMatchesGraph

\* C12: a call of Index that completes leaves in both indexes exactly what
\* the current graph implies, whatever an earlier build had left, and a
\* second call on the unchanged graph leaves them as they are.
C12_IndexIsFullRebuild ==
    (ret.op = "Index" /\ status = "running") =>
        /\ IndexMatchesGraph
        /\ m.Indexed
        /\ Index(m, heap) = {[panic |-> FALSE, m |-> m]}

\* A rebuild that found the edges of an earlier build and replaced them.
C12_Witness ==
    /\ ret.op = "Index" /\ status = "running"
    /\ ret.had /\ ret.changed
    /\ m.EdgeLookup # EmptyMap
    /\ m.StateLookup # EmptyMap

\* AddTransition called for each symbol in order.
RECURSIVE OneByOne(_, _, _)
OneByOne(s, state, symbols) ==
    IF symbols = <<>> THEN s
    ELSE OneByOne(AddTransition(s, state, Head(symbols)), state, Tail(symbols))

C14_PathNeverEmpty ==
    (RunReturned /\ CanStart) => Len(ret.val.path) >= 1

\* C14 as amended: whenever Run can start, the path it returns has at least
\* one entry for every token sequence that is not empty; for the empty
\* sequence it returns the empty path and true.
C14_PathEmptyOnlyWithoutTokens ==
    (ret.op = "Run" /\ CanStart) =>
        /\ ret.tokens # <<>> => Len(ret.val.path) >= 1
        /\ ret.tokens = <<>> =>
              (ret.val.outcome = "return" /\ ret.val.path = <<>> /\ ret.val.ok)

\* Run on no tokens, from a registered start state that is not accepting.
C14_Witness ==
    /\ RunReturned /\ CanStart
    /\ ret.tokens = <<>>
    /\ ~Accepting(m.Start)
    /\ ret.val.path = <<>>

\* C15: a call of Run ends, after at most one loop iteration per token and at
\* most one lookup per iteration, the i-th lookup being on the i-th token;
\* also when the transitions form a cycle.
C15_OneIterationPerToken ==
    ret.op = "Run" =>
        /\ ret.val.outcome \in {"return", "fatal"}
        /\ ret.val.iters <= Len(ret.tokens)
        /\ Len(ret.val.lookups) <= ret.val.iters
        /\ Len(ret.val.path) = ret.val.iters
        /\ \A i \in 1..Len(ret.val.lookups) : ret.val.lookups[i][2] = ret.tokens[i]

\* A run around a cycle: the same state left twice, once per token.
C15_Witness ==
    /\ RunReturned
    /\ Len(ret.tokens) = 2
    /\ ret.val.iters = 2
    /\ ret.val.path[1] = ret.val.path[2]
    /\ Len(ret.val.lookups) = 2
    /\ Dest(ret.val.path[2], ret.tokens[2]) = ret.val.path[1]

\* C16: when Run follows a transition into a name that is not registered, it
\* reports a fault and does not return success, on the last token as on an
\* earlier one.
C16_DanglingIsFault ==
    (ret.op = "Run" /\ CanStart) =>
        \A k \in 1..Len(ret.tokens) :
            (/\ Reaches(ret.tokens, k + 1)
             /\ ~Registered(Walk(ret.tokens, k + 1)))
            => (ret.val.outcome = "fatal" /\ ~ret.val.ok)

\* The same for a transition followed on a token that is not the last.
C16_FaultBeforeLastToken ==
    (ret.op = "Run" /\ CanStart) =>
        \A k \in 1..(Len(ret.tokens) - 1) :
            (/\ Reaches(ret.tokens, k + 1)
             /\ ~Registered(Walk(ret.tokens, k + 1)))
            => (ret.val.outcome = "fatal" /\ ~ret.val.ok)

\* C17: the key of the state-pair index is injective on ordered pairs of
\* symbols: no other pair, also of symbols holding "->", has the key that
\* buildKey returned for this one.
C17_KeyInjective ==
    ret.op = "buildKey" =>
        \A c \in KeySymbols, d \in KeySymbols :
            <<c, d>> # <<ret.from, ret.to>> => buildKey(c, d) # ret.val

\* Holds when neither symbol holds a byte of the delimiter.
C17_InjectiveWithoutDelimiter ==
    (/\ ret.op = "buildKey"
     /\ \A i \in DOMAIN ret.from : ret.from[i] \notin {45, 62}
     /\ \A i \in DOMAIN ret.to : ret.to[i] \notin {45, 62})
    => \A c \in KeySymbols, d \in KeySymbols :
           <<c, d>> # <<ret.from, ret.to>> => buildKey(c, d) # ret.val

\* C18: the result of InspectStates is a set: on an index just built over a
\* graph without dangling transitions no state name is in it more than once.
C18_ResultIsSet ==
    (/\ ret.op = "InspectStates"
     /\ status = "running"
     /\ ret.built
     /\ NoDangling)
    => \A q \in BagToSet(ret.val) : ret.val[q] = 1

\* C19: Index, called directly or by an inspection, panics when a registered
\* state has a transition to a name that is not registered, and only then: a
\* build that completed was over a graph without such a transition, and the
\* build that panicked left Indexed as it found it (false, when an inspection
\* started it).
C19_IndexFaultsOnDangling ==
    /\ (ret.op = "Index" /\ ~NoDangling) => status = "panicked"
    /\ (ret.op = "Index" /\ status = "running") => (NoDangling /\ m.Indexed)
    /\ (ret.op = "Index" /\ status = "panicked") => m.Indexed = ret.indexed
    /\ (ret.op \in {"InspectStates", "InspectSymbols"} /\ status = "panicked")
       => (~NoDangling /\ ~m.Indexed)
    /\ (ret.op \in {"InspectStates", "InspectSymbols"} /\ status = "running")
       => (ret.built => NoDangling) /\ m.Indexed
    /\ status = "panicked" => ~NoDangling

\* Index panicked on a dangling transition after it had indexed some other.
C19_Witness ==
    /\ ret.op = "Index"
    /\ status = "panicked"
    /\ ~m.Indexed
    /\ m.EdgeLookup # EmptyMap
    /\ ~NoDangling

====================================================================
